---- MODULE Spec2Model ----
(***************************************************************************)
(* Model of the comment-to-location mapping and annotation engine of the   *)
(* appeals decision assistant (src/ada/comment_helper.py).                 *)
(*                                                                         *)
(* Text is a sequence of one-character strings, so that the regular        *)
(* expressions, str.split, str.strip and the slices of the source are      *)
(* computed character by character.                                        *)
(***************************************************************************)
EXTENDS Integers, Sequences, FiniteSets, TLC

(***************************************************************************)
(* Characters and the Python string primitives the source uses.            *)
(***************************************************************************)
DigitChars == <<"0", "1", "2", "3", "4", "5", "6", "7", "8", "9">>

\* \d of the re module and str.isdigit, on the ASCII alphabet of the model
IsDigit(c) == \E i \in 1..10 : DigitChars[i] = c

DigitVal(c) == (CHOOSE i \in 1..10 : DigitChars[i] = c) - 1

\* \s of the re module and the characters str.strip() removes
IsSpace(c) == c \in {" ", "\t", "\n", "\r", "\f"}

\* int(s) for a string of decimal digits
RECURSIVE PyInt(_)
PyInt(ds) ==
    IF ds = <<>> THEN 0
    ELSE 10 * PyInt(SubSeq(ds, 1, Len(ds) - 1)) + DigitVal(ds[Len(ds)])

\* list(range(start, stop))
PyRange(start, stop) ==
    IF stop > start THEN [k \in 1..(stop - start) |-> start + k - 1] ELSE <<>>

\* s[:n] for n >= 0
Take(s, n) == SubSeq(s, 1, IF n < Len(s) THEN n ELSE Len(s))

\* the index after the longest run of characters of class cls that starts at i
\* (cls is "space" for \s, "digit" for \d)
InClass(cls, c) == IF cls = "space" THEN IsSpace(c) ELSE IsDigit(c)

RunEnd(t, i, cls) ==
    CHOOSE j \in i..(Len(t) + 1) :
        /\ \A k \in i..(j - 1) : InClass(cls, t[k])
        /\ (j = Len(t) + 1 \/ ~InClass(cls, t[j]))

Min(S) == CHOOSE x \in S : \A y \in S : x <= y

\* sorted(set(xs)): the distinct elements, smallest first
RECURSIVE SortedOfSet(_)
SortedOfSet(S) ==
    IF S = {} THEN <<>>
    ELSE LET m == Min(S) IN <<m>> \o SortedOfSet(S \ {m})

SeqRange(xs) == {xs[i] : i \in 1..Len(xs)}

\* the list as built, neither deduplicated nor sorted
ListAsBuilt(xs) == xs

SortedSet(xs) == SortedOfSet(SeqRange(xs))

(***************************************************************************)
(* extract_line_numbers: the two regular expressions and the loop.         *)
(***************************************************************************)
NoMatch == [ok |-> FALSE, end |-> 0, groups |-> <<>>]

\* [Ll]ines? at i: the index after the word, 0 when it does not match there.
\* The optional s is greedy; giving it back never helps, because the next
\* element \s+ cannot match an "s".
LineWordEnd(t, i) ==
    IF /\ i + 3 <= Len(t)
       /\ t[i] \in {"l", "L"}
       /\ t[i + 1] = "i" /\ t[i + 2] = "n" /\ t[i + 3] = "e"
    THEN IF i + 4 <= Len(t) /\ t[i + 4] = "s" THEN i + 5 ELSE i + 4
    ELSE 0

\* r'[Ll]ines?\s+(\d+)' matched at position i. \s+ and \d+ are greedy and
\* take the longest run: a shorter run leaves a character of the same class
\* for the next element, which cannot match it.
MatchSingle(t, i) ==
    LET w == LineWordEnd(t, i)
        s == RunEnd(t, w, "space")
        d == RunEnd(t, s, "digit")
    IN  IF w # 0 /\ s > w /\ d > s
        THEN [ok |-> TRUE, end |-> d, groups |-> <<SubSeq(t, s, d - 1)>>]
        ELSE NoMatch

\* r'[Ll]ines?\s+(\d+)-(\d+)' matched at position i
MatchRange(t, i) ==
    LET w == LineWordEnd(t, i)
        s == RunEnd(t, w, "space")
        d == RunEnd(t, s, "digit")
        e == RunEnd(t, d + 1, "digit")
    IN  IF /\ w # 0 /\ s > w /\ d > s
           /\ d <= Len(t) /\ t[d] = "-"
           /\ e > d + 1
        THEN [ok |-> TRUE, end |-> e,
              groups |-> <<SubSeq(t, s, d - 1), SubSeq(t, d + 1, e - 1)>>]
        ELSE NoMatch

\* the list `patterns`, in the order the loop visits it
patterns == <<"range", "single">>

MatchAt(pattern, t, i) ==
    IF pattern = "range" THEN MatchRange(t, i) ELSE MatchSingle(t, i)

\* re.finditer(pattern, text): the non-overlapping matches, scanning from
\* the left: the next match is the one at the first position, from `from` on,
\* where the pattern matches, and the scan resumes at its end.
RECURSIVE FindIter(_, _, _)
FindIter(pattern, t, from) ==
    LET starts == {p \in from..Len(t) : MatchAt(pattern, t, p).ok}
    IN  IF starts = {} THEN <<>>
        ELSE LET m == MatchAt(pattern, t, Min(starts))
             IN  <<m>> \o FindIter(pattern, t, m.end)

\* range(start, end): the last line of the range left out
MatchNumbersExclusive(m) ==
    IF Len(m.groups) = 2
    THEN PyRange(PyInt(m.groups[1]), PyInt(m.groups[2]))
    ELSE <<PyInt(m.groups[1])>>

\* a reversed pair silently swapped before it is expanded
MatchNumbersSwapped(m) ==
    IF Len(m.groups) = 2
    THEN LET x == PyInt(m.groups[1])
             y == PyInt(m.groups[2])
         IN  PyRange(IF x < y THEN x ELSE y, (IF x < y THEN y ELSE x) + 1)
    ELSE <<PyInt(m.groups[1])>>

\* what one match appends to line_numbers
MatchNumbers(m) ==
    IF Len(m.groups) = 2
    THEN PyRange(PyInt(m.groups[1]), PyInt(m.groups[2]) + 1)
    ELSE <<PyInt(m.groups[1])>>

RECURSIVE MatchesNumbers(_)
MatchesNumbers(ms) ==
    IF ms = <<>> THEN <<>>
    ELSE MatchNumbers(Head(ms)) \o MatchesNumbers(Tail(ms))

\* line_numbers when the loop over the patterns has ended
CollectedNumbers(text) ==
    MatchesNumbers(FindIter(patterns[1], text, 1))
        \o MatchesNumbers(FindIter(patterns[2], text, 1))

extract_line_numbers(text) == SortedSet(CollectedNumbers(text))

\* sep.join(parts): the parts in order with sep between neighbours, put
\* together half by half
RECURSIVE Join(_, _)
Join(s, parts) ==
    IF parts = <<>> THEN <<>>
    ELSE IF Len(parts) = 1 THEN parts[1]
    ELSE LET h == Len(parts) \div 2
         IN  Join(s, SubSeq(parts, 1, h)) \o s
                 \o Join(s, SubSeq(parts, h + 1, Len(parts)))

(***************************************************************************)
(* _parse_comment_sections: split, strip, and the section loop.            *)
(***************************************************************************)
NewLine == "\n"

\* the index of the k-th character c of s; 0 for k = 0 and Len(s) + 1 when
\* s has fewer than k of them
IndexOf(s, c, k) ==
    LET at == {i \in 1..Len(s) : s[i] = c}
    IN  IF k = 0 THEN 0
        ELSE IF k > Cardinality(at) THEN Len(s) + 1
        ELSE CHOOSE i \in at : Cardinality({j \in at : j < i}) = k - 1

\* s.split(c) for a one-character separator: the pieces between neighbouring
\* separators, at least one piece
Split(s, c) ==
    LET n == Cardinality({i \in 1..Len(s) : s[i] = c})
    IN  [k \in 1..(n + 1) |->
            SubSeq(s, IndexOf(s, c, k - 1) + 1, IndexOf(s, c, k) - 1)]

\* s.strip()
Strip(s) ==
    LET a == RunEnd(s, 1, "space")
    IN  IF a > Len(s) THEN <<>>
        ELSE LET b == CHOOSE j \in a..Len(s) :
                          ~IsSpace(s[j]) /\ \A k \in (j + 1)..Len(s) : IsSpace(s[k])
             IN  SubSeq(s, a, b)

\* s.startswith(prefix)
StartsWith(s, prefix) ==
    Len(s) >= Len(prefix) /\ SubSeq(s, 1, Len(prefix)) = prefix

LocationToken == <<"L","o","c","a","t","i","o","n",":">>

\* a start test that forgets the "Location:" marker
IsSectionStartDigitOnly(line) == line # <<>> /\ IsDigit(line[1])

\* line and (line[0].isdigit() or line.startswith("Location:"))
IsSectionStart(line) ==
    line # <<>> /\ (IsDigit(line[1]) \/ StartsWith(line, LocationToken))

\* one pass of the loop body over a stripped line; `state` holds
\* comment_sections and current_section
LoopBody(state, line) ==
    IF IsSectionStart(line)
    THEN [sections |-> IF state.current # <<>>
                       THEN Append(state.sections, Join(<<NewLine>>, state.current))
                       ELSE state.sections,
          current  |-> <<line>>]
    ELSE IF state.current # <<>>
    THEN [state EXCEPT !.current = Append(@, line)]
    ELSE state

\* the loop over lines[lo..hi] in order, the first half and then the second
RECURSIVE ParseLines(_, _, _, _)
ParseLines(lines, lo, hi, state) ==
    IF lo > hi THEN state
    ELSE IF lo = hi THEN LoopBody(state, Strip(lines[lo]))
    ELSE LET mid == (lo + hi) \div 2
         IN  CHOOSE after \in
                 {ParseLines(lines, mid + 1, hi, before) :
                     before \in {ParseLines(lines, lo, mid, state)}} : TRUE

\* the loop and the flush after it
parse_comment_sections(comments_text) ==
    LET lines == Split(comments_text, NewLine)
        state == ParseLines(lines, 1, Len(lines),
                            [sections |-> <<>>, current |-> <<>>])
    IN  IF state.current # <<>>
        THEN Append(state.sections, Join(<<NewLine>>, state.current))
        ELSE state.sections

(***************************************************************************)
(* The two entry points: what one pass of the loop over the comment        *)
(* sections does to the document.                                          *)
(***************************************************************************)
MaxComments == 50
MaxBody == 500
MinSearchLen == 3

UpperChars == <<"A","B","C","D","E","F","G","H","I","J","K","L","M",
                "N","O","P","Q","R","S","T","U","V","W","X","Y","Z">>
LowerChars == <<"a","b","c","d","e","f","g","h","i","j","k","l","m",
                "n","o","p","q","r","s","t","u","v","w","x","y","z">>

LowerChar(c) ==
    IF \E k \in 1..26 : UpperChars[k] = c
    THEN LowerChars[CHOOSE k \in 1..26 : UpperChars[k] = c]
    ELSE c

LowerSeq(s) == [k \in 1..Len(s) |-> LowerChar(s[k])]

HasLineNumbers(comment) == extract_line_numbers(comment) # <<>>

\* the cap applied after the sections without line numbers are dropped
FirstSectionsWithNumbers(sections) ==
    Take(SelectSeq(sections, HasLineNumbers), MaxComments)

\* comment_sections[:50]
FirstSections(sections) == Take(sections, MaxComments)

\* a cut that ends the body with an ellipsis
TruncateWithEllipsis(comment) ==
    IF Len(comment) > MaxBody THEN Take(comment, MaxBody - 3) \o <<".", ".", ".">>
    ELSE comment

\* comment[:500] if len(comment) > 500 else comment
Truncate(comment) ==
    IF Len(comment) > MaxBody THEN Take(comment, MaxBody) ELSE comment

\* the test without its lower bound
InBoundsNoLowerBound(line_num, lines) == line_num <= Len(lines)

\* 1 <= line_num <= len(text_lines)
InBounds(line_num, lines) == 1 <= line_num /\ line_num <= Len(lines)

\* the entry after the one asked for
PyIndexNext(xs, k) ==
    IF 0 <= k + 1 /\ k + 1 < Len(xs) THEN [ok |-> TRUE, value |-> xs[k + 2]]
    ELSE [ok |-> FALSE, value |-> <<>>]

\* xs[k] of a Python list: a negative index counts from the end, an index
\* outside the list raises IndexError
PyIndex(xs, k) ==
    IF 0 <= k /\ k < Len(xs) THEN [ok |-> TRUE, value |-> xs[k + 1]]
    ELSE IF k < 0 /\ -k <= Len(xs) THEN [ok |-> TRUE, value |-> xs[Len(xs) + k + 1]]
    ELSE [ok |-> FALSE, value |-> <<>>]

\* the loop that fills target_lines, one entry per line number kept
RECURSIVE TargetLines(_, _)
TargetLines(nums, lines) ==
    IF nums = <<>> THEN <<>>
    ELSE (IF InBounds(Head(nums), lines)
          THEN <<PyIndex(lines, Head(nums) - 1)>> ELSE <<>>)
         \o TargetLines(Tail(nums), lines)

\* all_text: the text of every page followed by a newline
RECURSIVE AllText(_)
AllText(pages) ==
    IF pages = <<>> THEN <<>>
    ELSE Head(pages).text \o <<NewLine>> \o AllText(Tail(pages))

\* PdfTextFinder(page).Find(search_text) with TextFindParameter.IgnoreCase:
\* one fragment per occurrence of the text on the page, each with the
\* bounding regions the page layout gives it; nothing on a page whose text
\* layer the finder cannot search
Occurrences(hay, needle) ==
    {p \in 1..(Len(hay) - Len(needle) + 1) :
        LowerSeq(SubSeq(hay, p, p + Len(needle) - 1)) = LowerSeq(needle)}

Find(page, search_text) ==
    IF ~page.searchable THEN <<>>
    ELSE LET at == SortedOfSet(Occurrences(page.text, search_text))
         IN  [k \in 1..Len(at) |->
                 [Bounds |-> [r \in 1..page.nbounds |-> [at |-> at[k], region |-> r]]]]

\* PdfTextMarkupAnnotation("ADA", body, rect) with the type and colour set
Highlight(comment, rect) ==
    [author |-> "ADA", text |-> Truncate(comment), rect |-> rect,
     type |-> "Highlight", color |-> "Yellow"]

\* the pages whose search returns at least one fragment
MatchingPages(pages, search_text) ==
    {p \in 1..Len(pages) : Len(Find(pages[p], search_text)) > 0}

\* a counter that counts the annotations made
NextCountPerRegion(count, rec) == count + Len(rec.added)

\* annotations_added += 1, comments_added += 1: once per record placed
NextCount(count, rec) == IF rec.outcome = "placed" THEN count + 1 ELSE count

\* what the loop records for a comment it gives up on, or places
Record(comment, nums, target_lines, search_text, outcome) ==
    [comment |-> comment, line_numbers |-> nums, target_lines |-> target_lines,
     search_text |-> search_text, outcome |-> outcome,
     page |-> 0, para |-> -1, searched |-> 0, added |-> <<>>]

\* a placement that highlights every fragment of the page
PlaceOnPageEveryFragment(pages, rec, p) ==
    [rec EXCEPT
       !.outcome = "placed", !.page = p, !.searched = p,
       !.added =
          [i \in 1..(Len(Find(pages[p], rec.search_text)) * pages[p].nbounds) |->
              Highlight(rec.comment,
                        Find(pages[p], rec.search_text)
                            [((i - 1) \div pages[p].nbounds) + 1]
                                .Bounds[((i - 1) % pages[p].nbounds) + 1])]]

\* lines 102-115: the first fragment of the first matching page is
\* highlighted, one annotation per bounding region
PlaceOnPage(pages, rec, p) ==
    [rec EXCEPT
       !.outcome = "placed", !.page = p, !.searched = p,
       !.added = [r \in 1..Len(Find(pages[p], rec.search_text)[1].Bounds) |->
                     Highlight(rec.comment, Find(pages[p], rec.search_text)[1].Bounds[r])]]

\* a loop that keeps the last matching page
SearchPagesLast(pages, rec, hits) ==
    IF hits = {} THEN [rec EXCEPT !.outcome = "no_hit", !.searched = Len(pages)]
    ELSE PlaceOnPage(pages, rec, CHOOSE p \in hits : \A q \in hits : q <= p)

\* lines 94-115: the loop over the pages
SearchPages(pages, rec, hits) ==
    IF hits = {} THEN [rec EXCEPT !.outcome = "no_hit", !.searched = Len(pages)]
    ELSE PlaceOnPage(pages, rec, Min(hits))

\* the first target line of three characters or more, trimmed
SearchTextFirstLongEnough(target_lines) ==
    IF \E k \in 1..Len(target_lines) : Len(Strip(target_lines[k])) >= MinSearchLen
    THEN Strip(target_lines[Min({k \in 1..Len(target_lines) :
                                   Len(Strip(target_lines[k])) >= MinSearchLen})])
    ELSE Strip(target_lines[1])

\* search_text = target_lines[0].strip()
SearchText(target_lines) == Strip(target_lines[1])

\* lines 90-92, then the search
WithSearchText(pages, comment, nums, target_lines, search_text) ==
    IF search_text = <<>> \/ Len(search_text) < MinSearchLen
    THEN Record(comment, nums, target_lines, search_text, "short")
    ELSE SearchPages(pages, Record(comment, nums, target_lines, search_text, "no_hit"),
                     MatchingPages(pages, search_text))

\* lines 82-88, then the search text
WithTargets(pages, comment, nums, targets) ==
    IF \E k \in 1..Len(targets) : ~targets[k].ok
    THEN Record(comment, nums, <<>>, <<>>, "IndexError")
    ELSE IF targets = <<>> THEN Record(comment, nums, <<>>, <<>>, "no_target")
    ELSE WithSearchText(pages, comment, nums,
                        [k \in 1..Len(targets) |-> targets[k].value],
                        SearchText([k \in 1..Len(targets) |-> targets[k].value]))

\* a loop that gives up the whole call on a comment without line numbers
WithLineNumbersRaising(pages, lines, comment, nums) ==
    IF nums = <<>> THEN Record(comment, nums, <<>>, <<>>, "IndexError")
    ELSE WithTargets(pages, comment, nums, TargetLines(nums, lines))

\* lines 77-80, then the target lines
WithLineNumbers(pages, lines, comment, nums) ==
    IF nums = <<>> THEN Record(comment, nums, <<>>, <<>>, "no_lines")
    ELSE WithTargets(pages, comment, nums, TargetLines(nums, lines))

\* the body of the PDF loop for one comment: what it read, what it decided
\* and the annotations it adds (to page `page`, 0 when it adds none)
PdfRecord(pages, lines, comment) ==
    WithLineNumbers(pages, lines, comment, extract_line_numbers(comment))

\* paragraph.runs: the runs of the paragraph at zero-based index para_idx
Runs(paragraphs, para_idx) ==
    [r \in 1..paragraphs[para_idx + 1].runs |-> [para |-> para_idx, run |-> r]]

\* the line number taken as a paragraph index without the offset
ParaIndexOneBased(line_num) == line_num

\* para_idx = line_num - 1
ParaIndex(line_num) == line_num - 1

\* the positions in line_numbers whose paragraph exists, with or without runs
UsableLinesAnyParagraph(paragraphs, nums) ==
    {k \in 1..Len(nums) :
        0 <= ParaIndex(nums[k]) /\ ParaIndex(nums[k]) < Len(paragraphs)}

\* the positions in line_numbers whose paragraph exists and has runs
UsableLines(paragraphs, nums) ==
    {k \in 1..Len(nums) :
        /\ 0 <= ParaIndex(nums[k]) /\ ParaIndex(nums[k]) < Len(paragraphs)
        /\ Runs(paragraphs, ParaIndex(nums[k])) # <<>>}

\* lines 136-150: the first usable line number gets the comment
AnchorComment(paragraphs, comment, nums, usable) ==
    IF usable = {} THEN Record(comment, nums, <<>>, <<>>, "no_paragraph")
    ELSE [Record(comment, nums, <<>>, <<>>, "placed") EXCEPT
            !.para = ParaIndex(nums[Min(usable)]),
            !.searched = Min(usable),
            !.added = <<[runs |-> Runs(paragraphs, ParaIndex(nums[Min(usable)])),
                         text |-> Truncate(comment),
                         author |-> "ADA", initials |-> "ADA"]>>]

\* lines 131-134, then the loop over the line numbers
DocxWithLineNumbers(paragraphs, comment, nums) ==
    IF nums = <<>> THEN Record(comment, nums, <<>>, <<>>, "no_lines")
    ELSE AnchorComment(paragraphs, comment, nums, UsableLines(paragraphs, nums))

\* the body of the word-processor loop for one comment
DocxRecord(paragraphs, comment) ==
    DocxWithLineNumbers(paragraphs, comment, extract_line_numbers(comment))

(***************************************************************************)
(* main.py: its own extract_line_numbers and add_comments_to_pdf, with the *)
(* section loop written out inside the entry point.                        *)
(***************************************************************************)
MainMaxComments == 50
MainMaxBody == 500
MainMinSearchLen == 3

main_patterns == <<"range", "single">>

\* main.py lines 104-108: what one match appends to line_numbers
MainMatchNumbers(m) ==
    IF Len(m.groups) = 2
    THEN PyRange(PyInt(m.groups[1]), PyInt(m.groups[2]) + 1)
    ELSE <<PyInt(m.groups[1])>>

RECURSIVE MainMatchesNumbers(_)
MainMatchesNumbers(ms) ==
    IF ms = <<>> THEN <<>>
    ELSE MainMatchNumbers(Head(ms)) \o MainMatchesNumbers(Tail(ms))

\* main.py lines 92-110
main_extract_line_numbers(text) ==
    SortedOfSet(SeqRange(MainMatchesNumbers(FindIter(main_patterns[1], text, 1))
                            \o MainMatchesNumbers(FindIter(main_patterns[2], text, 1))))

\* main.py lines 132-137: one pass of the loop body over a stripped line
MainLoopBody(state, line) ==
    IF line # <<>> /\ (IsDigit(line[1]) \/ StartsWith(line, LocationToken))
    THEN [sections |-> IF state.current # <<>>
                       THEN Append(state.sections, Join(<<NewLine>>, state.current))
                       ELSE state.sections,
          current  |-> <<line>>]
    ELSE IF state.current # <<>>
    THEN [state EXCEPT !.current = Append(@, line)]
    ELSE state

\* main.py lines 130-137: the loop over lines[lo..hi] in order
RECURSIVE MainParseLines(_, _, _, _)
MainParseLines(lines, lo, hi, state) ==
    IF lo > hi THEN state
    ELSE IF lo = hi THEN MainLoopBody(state, Strip(lines[lo]))
    ELSE LET mid == (lo + hi) \div 2
         IN  CHOOSE after \in
                 {MainParseLines(lines, mid + 1, hi, before) :
                     before \in {MainParseLines(lines, lo, mid, state)}} : TRUE

\* main.py lines 127-140: comment_sections when the flush is done
MainSections(comments_text) ==
    LET lines == Split(comments_text, NewLine)
        state == MainParseLines(lines, 1, Len(lines),
                                [sections |-> <<>>, current |-> <<>>])
    IN  IF state.current # <<>>
        THEN Append(state.sections, Join(<<NewLine>>, state.current))
        ELSE state.sections

\* a test that takes the line number as a zero-based index
MainInBoundsZeroBased(line_num, lines) == 0 <= line_num /\ line_num < Len(lines)

\* main.py line 151: 1 <= line_num <= len(text_lines)
MainInBounds(line_num, lines) == 1 <= line_num /\ line_num <= Len(lines)

\* main.py lines 149-152
RECURSIVE MainTargetLines(_, _)
MainTargetLines(nums, lines) ==
    IF nums = <<>> THEN <<>>
    ELSE (IF MainInBounds(Head(nums), lines)
          THEN <<PyIndex(lines, Head(nums) - 1)>> ELSE <<>>)
         \o MainTargetLines(Tail(nums), lines)

\* main.py lines 175-177
MainHighlight(comment, rect) ==
    [author |-> "ADA",
     text |-> IF Len(comment) > MainMaxBody THEN Take(comment, MainMaxBody) ELSE comment,
     rect |-> rect, type |-> "Highlight", color |-> "Yellow"]

\* main.py lines 161-182: the loop over the pages
MainSearchPages(pages, rec, hits) ==
    IF hits = {} THEN [rec EXCEPT !.outcome = "no_hit", !.searched = Len(pages)]
    ELSE [rec EXCEPT
            !.outcome = "placed", !.page = Min(hits), !.searched = Min(hits),
            !.added =
               [r \in 1..Len(Find(pages[Min(hits)], rec.search_text)[1].Bounds) |->
                   MainHighlight(rec.comment,
                                 Find(pages[Min(hits)], rec.search_text)[1].Bounds[r])]]

\* main.py lines 157-159, then the search
MainWithSearchText(pages, comment, nums, target_lines, search_text) ==
    IF search_text = <<>> \/ Len(search_text) < MainMinSearchLen
    THEN Record(comment, nums, target_lines, search_text, "short")
    ELSE MainSearchPages(pages,
                         Record(comment, nums, target_lines, search_text, "no_hit"),
                         {p \in 1..Len(pages) : Len(Find(pages[p], search_text)) > 0})

\* main.py lines 149-155, then the search text
MainWithTargets(pages, comment, nums, targets) ==
    IF \E k \in 1..Len(targets) : ~targets[k].ok
    THEN Record(comment, nums, <<>>, <<>>, "IndexError")
    ELSE IF targets = <<>> THEN Record(comment, nums, <<>>, <<>>, "no_target")
    ELSE MainWithSearchText(pages, comment, nums,
                            [k \in 1..Len(targets) |-> targets[k].value],
                            Strip(targets[1].value))

\* main.py lines 144-182: the body of the loop for one comment
MainPdfRecord(pages, lines, comment, nums) ==
    IF nums = <<>> THEN Record(comment, nums, <<>>, <<>>, "no_lines")
    ELSE MainWithTargets(pages, comment, nums, MainTargetLines(nums, lines))

(***************************************************************************)
(* build_line_to_para_map: the reconciliation of the extracted lines with  *)
(* the paragraphs of the document.                                         *)
(***************************************************************************)
\* the index after the run of non-whitespace characters of t that starts at i
WordEnd(t, i) ==
    CHOOSE j \in i..(Len(t) + 1) :
        /\ \A k \in i..(j - 1) : ~IsSpace(t[k])
        /\ (j = Len(t) + 1 \/ IsSpace(t[j]))

\* s.split(): the runs of non-whitespace characters of s from index i on
RECURSIVE SplitWords(_, _)
SplitWords(s, i) ==
    IF RunEnd(s, i, "space") > Len(s) THEN <<>>
    ELSE <<SubSeq(s, RunEnd(s, i, "space"), WordEnd(s, RunEnd(s, i, "space")) - 1)>>
             \o SplitWords(s, WordEnd(s, RunEnd(s, i, "space")))

\* " ".join(text.split())
Normalized(s) == Join(<<" ">>, SplitWords(s, 1))

\* lines 44 and 50-52: the exact comparison, then the normalized one
TextsMatch(para_text, line_text) ==
    para_text = line_text \/ Normalized(para_text) = Normalized(line_text)

\* a search that also takes paragraphs already used
CandidatesWithUsed(paras, used, line_text) ==
    {q \in 0..(Len(paras) - 1) :
        /\ Strip(paras[q + 1]) # <<>>
        /\ TextsMatch(Strip(paras[q + 1]), line_text)}

\* lines 35-55: the paragraph indices at which the inner loop would stop
Candidates(paras, used, line_text) ==
    {q \in 0..(Len(paras) - 1) :
        /\ q \notin used
        /\ Strip(paras[q + 1]) # <<>>
        /\ TextsMatch(Strip(paras[q + 1]), line_text)}

\* a loop that maps a text once and skips the lines that repeat it
MapLineOncePerText(state, paras, line_idx, line) ==
    IF Strip(line) = <<>> \/ Candidates(paras, state.used, Strip(line)) = {}
          \/ \E x \in state.map : TextsMatch(Strip(paras[x[2] + 1]), Strip(line))
    THEN state
    ELSE [map  |-> state.map \cup
                      {<<line_idx, Min(Candidates(paras, state.used, Strip(line)))>>},
          used |-> state.used \cup {Min(Candidates(paras, state.used, Strip(line)))}]

\* lines 31-55: one pass of the outer loop, over line number line_idx; `state`
\* holds line_to_para_map and used_paragraphs
MapLine(state, paras, line_idx, line) ==
    IF Strip(line) = <<>> \/ Candidates(paras, state.used, Strip(line)) = {}
    THEN state
    ELSE [map  |-> state.map \cup
                      {<<line_idx, Min(Candidates(paras, state.used, Strip(line)))>>},
          used |-> state.used \cup {Min(Candidates(paras, state.used, Strip(line)))}]

(***************************************************************************)
(* Inputs of extract_line_numbers: a comment text written as a list of     *)
(* line references and filler words, rendered to characters.               *)
(***************************************************************************)
MaxRefs == 2

\* str(n) for n >= 0
RECURSIVE ToDigits(_)
ToDigits(n) ==
    IF n < 10 THEN <<DigitChars[n + 1]>>
    ELSE ToDigits(n \div 10) \o <<DigitChars[(n % 10) + 1]>>

\* the spellings of the word "line(s)" a comment may use
FirstLetterWords == {<<"l","i","n","e">>, <<"L","i","n","e","s">>}
OtherCaseWords == {<<"L","I","N","E">>, <<"l","I","n","E","s">>}
Words == FirstLetterWords \cup OtherCaseWords

RefNumbers == {0, 9, 11}

Fillers == {<<"a","n","d">>, <<"-">>, <<"l","i","n","e">>}

Separators == {<<" ">>, <<>>}

SingleRefs == {[kind |-> "single", word |-> w, a |-> n, b |-> n] :
                  w \in Words, n \in RefNumbers}
RangeRefs == {[kind |-> "range", word |-> w, a |-> x, b |-> y] :
                  w \in Words, x \in RefNumbers, y \in RefNumbers}
FillerRefs == {[kind |-> "filler", word |-> f, a |-> 0, b |-> 0] : f \in Fillers}
Refs == SingleRefs \cup RangeRefs \cup FillerRefs

RefText(r) ==
    CASE r.kind = "single" -> r.word \o <<" ">> \o ToDigits(r.a)
      [] r.kind = "range" -> r.word \o <<" ">> \o ToDigits(r.a) \o <<"-">> \o ToDigits(r.b)
      [] OTHER -> r.word

RenderRefs(sep, rs) == Join(sep, [i \in 1..Len(rs) |-> RefText(rs[i])])

\* the same references with the word written in lower case
LowerWord(w) == IF Len(w) = 5 THEN <<"l","i","n","e","s">> ELSE <<"l","i","n","e">>
LowerRefs(rs) ==
    [i \in 1..Len(rs) |->
        IF rs[i].kind = "filler" THEN rs[i]
        ELSE [rs[i] EXCEPT !.word = LowerWord(rs[i].word)]]

\* the integers the references of a text denote
IntendedNumbers(rs) ==
    UNION {IF rs[i].kind = "filler" THEN {} ELSE rs[i].a .. rs[i].b : i \in 1..Len(rs)}

(***************************************************************************)
(* Inputs of _parse_comment_sections: the lines of a comments block, each  *)
(* written down with what it is after trimming and whether it opens a      *)
(* section.                                                                *)
(***************************************************************************)
MaxRawLines == 4

RawLines == {
    [raw |-> <<"1","."," ","a">>, trimmed |-> <<"1","."," ","a">>, start |-> TRUE],
    [raw |-> <<"L","o","c","a","t","i","o","n",":"," ","b">>, trimmed |-> <<"L","o","c","a","t","i","o","n",":"," ","b">>, start |-> TRUE],
    [raw |-> <<" ","2",")","\r">>, trimmed |-> <<"2",")">>, start |-> TRUE],
    [raw |-> <<" ","c"," ">>, trimmed |-> <<"c">>, start |-> FALSE],
    [raw |-> <<"l","o","c","a","t","i","o","n",":"," ","d">>, trimmed |-> <<"l","o","c","a","t","i","o","n",":"," ","d">>, start |-> FALSE],
    [raw |-> <<"x","3">>, trimmed |-> <<"x","3">>, start |-> FALSE],
    [raw |-> <<>>, trimmed |-> <<>>, start |-> FALSE],
    [raw |-> <<" ","\t">>, trimmed |-> <<>>, start |-> FALSE]}

RawText(ls) == Join(<<NewLine>>, [k \in 1..Len(ls) |-> ls[k].raw])

(***************************************************************************)
(* Inputs of the entry points: source documents and comments texts.        *)
(***************************************************************************)
MaxCommentLines == 2
MaxBounds == 2
MaxRuns == 1
MaxSections == 52
LongLen == 600

PageOneText == <<"A","l","p","h","a"," ","o","n","e","\n","a","b","\n"," "," ","B","e","t","a"," ","t","w","o"," ">>
PageTwoText == <<"G","a","m","m","a","\n","a","l","p","h","a"," ","o","n","e"," ","g","a","m","m","a">>

Page(t, s, n) == [text |-> t, searchable |-> s, nbounds |-> n, annotations |-> <<>>]

PdfDoc(pages) == [pages |-> pages, paragraphs |-> <<>>, comments |-> <<>>]
DocxDoc(runs) ==
    [pages |-> <<>>, paragraphs |-> [k \in 1..Len(runs) |-> [runs |-> runs[k]]],
     comments |-> <<>>]
NoDoc == [pages |-> <<>>, paragraphs |-> <<>>, comments |-> <<>>]

PdfSources ==
    {PdfDoc(<<Page(PageOneText, s1, n), Page(PageTwoText, s2, n)>>) :
        s1 \in BOOLEAN, s2 \in BOOLEAN, n \in 1..MaxBounds}
    \cup {PdfDoc(<<>>), PdfDoc(<<Page(PageTwoText, TRUE, 1)>>)}

DocxSources == {DocxDoc(rs) : rs \in UNION {[1..n -> 0..MaxRuns] : n \in {0, 3}}}

\* ten paragraphs; the paragraph at zero-based index 4 has 0, 1 or 2 runs
TenParagraphSources ==
    {DocxDoc([k \in 1..10 |-> IF k = 5 THEN n ELSE 1]) : n \in 0..2}

CommentLines == {
    <<"1","."," ","l","i","n","e"," ","1">>,
    <<"2","."," ","l","i","n","e","s"," ","0","-","2">>,
    <<"3","."," ","l","i","n","e"," ","9">>,
    <<"L","o","c","a","t","i","o","n",":"," ","L","i","n","e","s"," ","4">>,
    <<"5","."," ","l","i","n","e","s"," ","2","-","3">>,
    <<"s","e","e"," ","l","i","n","e"," ","3">>,
    <<"7","."," ","n","o"," ","r","e","f","e","r","e","n","c","e">>,
    <<>>}

CommentTexts ==
    {Join(<<NewLine>>, ls) : ls \in UNION {[1..n -> CommentLines] : n \in 0..MaxCommentLines}}

SplittingComment == <<"5","."," ","C","o","n","s","i","d","e","r"," ","s","p","l","i","t","t","i","n","g"," ","t","h","i","s"," ","s","e","n","t","e","n","c","e",".">>
SplittingCommentWithLine == <<"5","."," ","L","i","n","e"," ","5",":"," ","c","o","n","s","i","d","e","r"," ","s","p","l","i","t","t","i","n","g"," ","t","h","i","s"," ","s","e","n","t","e","n","c","e",".">>

\* n numbered sections; the sections from firstRef on name line 1
ManySections(n, firstRef) ==
    Join(<<NewLine>>,
         [k \in 1..n |-> ToDigits(k) \o (IF k >= firstRef THEN <<"."," ","l","i","n","e"," ","1">> ELSE <<"."," ","n","o","t","e">>)])

ManySectionsTexts ==
    {ManySections(n, f) : n \in (MaxSections - 3)..MaxSections, f \in {1, MaxComments - 3}}

\* one section of n characters that names line 1
LongComment(n) == <<"1","."," ","l","i","n","e"," ","1"," ">> \o [k \in 1..(n - 10) |-> "x"]

LongTexts == {LongComment(n) : n \in {MaxBody - 1, MaxBody, MaxBody + 1, LongLen}}

\* the paths of a call: the source path, and the destination paths a caller
\* may pass (the source path itself, another file, a file that cannot be
\* written); a second call is given a destination of its own
SourcePath == "in"
OutputPaths == {"in", "out", "ro"}
Unwritable == {"ro"}
Unreadable == {"missing"}
FreshPath == "out2"
Paths == OutputPaths \cup {FreshPath} \cup Unreadable

NoFiles == [p \in Paths |-> NoDoc]
NoResult ==
    [doc |-> NoDoc, added |-> 0, trace |-> <<>>, sections |-> <<>>,
     output_path |-> "none", pc |-> "none"]

\* a document of MaxDocLines extracted lines over two pages, the first page
\* with k of them; the lines at the positions in `at` are the ramp sentence
MaxDocLines == 44

RampLine == <<"T","h","e"," ","a","c","c","e","s","s"," ","r","a","m","p"," ","g","r","a","d","i","e","n","t"," ","e","x","c","e","e","d","s"," ","1",":","1","2",".">>
RampComment == <<"L","o","c","a","t","i","o","n",":"," ","L","i","n","e","s"," ","4","2","."," ","T","h","e"," ","g","r","a","d","i","e","n","t"," ","i","s"," ","n","o","n","-","c","o","m","p","l","i","a","n","t",".">>
OtherLine == <<"r","o","w">>

PageLines(from, to, at) ==
    Join(<<NewLine>>,
         [k \in 1..(to - from + 1) |->
             IF (from + k - 1) \in at THEN RampLine ELSE OtherLine])

RampSources ==
    {PdfDoc(<<Page(PageLines(1, k, at), TRUE, 1),
              Page(PageLines(k + 1, MaxDocLines, at), TRUE, 1)>>) :
        k \in {20, 41, 42}, at \in {{42}, {3, 42}, {42, 43}}}

FixedPdf == PdfDoc(<<Page(PageOneText, TRUE, 1), Page(PageTwoText, TRUE, 1)>>)
FixedDocx == DocxDoc(<<1, 0, 2>>)

(***************************************************************************)
(* Inputs of build_line_to_para_map: extracted lines and paragraph texts.  *)
(***************************************************************************)
MaxMapLines == 3
MaxMapParas == 3

MapTexts == {<<"a"," ","b">>, <<" ","a"," "," ","b">>, <<"c">>, <<" ">>}

(***************************************************************************)
(* State.                                                                  *)
(***************************************************************************)
VARIABLES
    refs, sep, text, line_numbers, xpc,    \* a call of extract_line_numbers
    raw_lines, ppc,                        \* a call of _parse_comment_sections
    extracted_lines, para_texts,           \* a call of build_line_to_para_map
    line_idx, line_to_para_map, used_paragraphs, mpc,
    comments_text, comment_sections,       \* the comments block and its sections
    entry, source,                         \* the entry point called and the file at its source path when first called
    path, output_path, files,              \* the two path arguments and the files on disk
    handle,                                \* the PdfDocument handle: none, open or closed
    call, first,                           \* which call this is, and what the first call left
    doc, text_lines, pos, added,             \* the locals of the entry point
    trace,                                 \* history: one entry per comment the loop has handled
    pc

vars == <<refs, sep, text, line_numbers, xpc, raw_lines, ppc,
          extracted_lines, para_texts, line_idx, line_to_para_map, used_paragraphs,
          mpc,
          comments_text,
          comment_sections, entry, source, path, output_path, files, handle,
          call, first, doc, text_lines, pos, added, trace, pc>>

extractVars == <<refs, sep, text, line_numbers, xpc>>
mapVars == <<extracted_lines, para_texts, line_idx, line_to_para_map,
             used_paragraphs, mpc>>
callVars == <<path, output_path, call, first>>
entryVars == <<entry, source, path, output_path, files, handle, call, first,
               doc, text_lines, pos, added, trace, pc>>

ExtractIdle ==
    /\ refs = <<>> /\ sep = <<>> /\ text = <<>> /\ line_numbers = <<>>
    /\ xpc = "idle"

ParseIdle == raw_lines = <<>> /\ ppc = "idle"

MapIdle ==
    /\ extracted_lines = <<>> /\ para_texts = <<>> /\ line_idx = 0
    /\ line_to_para_map = {} /\ used_paragraphs = {} /\ mpc = "idle"

EntryIdle ==
    /\ entry = "none" /\ source = NoDoc /\ doc = NoDoc /\ text_lines = <<>>
    /\ path = "none" /\ output_path = "none" /\ files = NoFiles
    /\ handle = "none" /\ call = "none" /\ first = NoResult
    /\ pos = 0 /\ added = 0 /\ trace = <<>> /\ pc = "idle"

(***************************************************************************)
(* SpecExtract: calls of extract_line_numbers.                             *)
(***************************************************************************)
InitExtract ==
    /\ refs \in UNION {[1..n -> Refs] : n \in 0..MaxRefs}
    /\ sep \in Separators
    /\ text = RenderRefs(sep, refs)
    /\ line_numbers = <<>>
    /\ xpc = "call"
    /\ ParseIdle /\ EntryIdle /\ MapIdle
    /\ comments_text = <<>> /\ comment_sections = <<>>

\* one call of CommentHelper.extract_line_numbers(text)
ExtractCall ==
    /\ xpc = "call"
    /\ line_numbers' = extract_line_numbers(text)
    /\ xpc' = "done"
    /\ UNCHANGED <<refs, sep, text, raw_lines, ppc, comments_text, comment_sections>>
    /\ UNCHANGED entryVars
    /\ UNCHANGED mapVars

NextExtract == ExtractCall

SpecExtract == InitExtract /\ [][NextExtract]_vars

(***************************************************************************)
(* SpecParse: calls of _parse_comment_sections.                            *)
(***************************************************************************)
InitParse ==
    /\ raw_lines \in UNION {[1..n -> RawLines] : n \in 0..MaxRawLines}
    /\ comments_text = RawText(raw_lines)
    /\ comment_sections = <<>>
    /\ ppc = "call"
    /\ ExtractIdle /\ EntryIdle /\ MapIdle

\* one call of CommentHelper._parse_comment_sections(comments_text)
ParseCall ==
    /\ ppc = "call"
    /\ comment_sections' = parse_comment_sections(comments_text)
    /\ ppc' = "done"
    /\ UNCHANGED <<raw_lines, comments_text>>
    /\ UNCHANGED extractVars
    /\ UNCHANGED mapVars
    /\ UNCHANGED entryVars

NextParse == ParseCall

SpecParse == InitParse /\ [][NextParse]_vars

(***************************************************************************)
(* SpecMap: calls of build_line_to_para_map.                               *)
(***************************************************************************)
InitMap ==
    /\ extracted_lines \in UNION {[1..n -> MapTexts] : n \in 0..MaxMapLines}
    /\ para_texts \in UNION {[1..n -> MapTexts] : n \in 0..MaxMapParas}
    /\ line_idx = 0
    /\ line_to_para_map = {} /\ used_paragraphs = {}
    /\ mpc = "call"
    /\ ExtractIdle /\ ParseIdle /\ EntryIdle
    /\ comments_text = <<>> /\ comment_sections = <<>>

\* test_universal_mapping.py lines 22-28: the document and its extracted
\* lines are read, the map and the set of used paragraphs start empty
MapStart ==
    /\ mpc = "call"
    /\ line_to_para_map' = {} /\ used_paragraphs' = {}
    /\ line_idx' = 1
    /\ mpc' = "loop"
    /\ UNCHANGED <<extracted_lines, para_texts, raw_lines, ppc, comments_text,
                   comment_sections>>
    /\ UNCHANGED extractVars
    /\ UNCHANGED entryVars

\* lines 30-55: one pass of the loop over the extracted lines
MapNextLine ==
    /\ mpc = "loop" /\ line_idx <= Len(extracted_lines)
    /\ \E after \in {MapLine([map |-> line_to_para_map, used |-> used_paragraphs],
                              para_texts, line_idx, extracted_lines[line_idx])} :
           /\ line_to_para_map' = after.map
           /\ used_paragraphs' = after.used
    /\ line_idx' = line_idx + 1
    /\ UNCHANGED <<extracted_lines, para_texts, mpc, raw_lines, ppc, comments_text,
                   comment_sections>>
    /\ UNCHANGED extractVars
    /\ UNCHANGED entryVars

\* lines 57-58: the map is returned
MapReturn ==
    /\ mpc = "loop" /\ line_idx > Len(extracted_lines)
    /\ mpc' = "done"
    /\ UNCHANGED <<extracted_lines, para_texts, line_idx, line_to_para_map,
                   used_paragraphs, raw_lines, ppc, comments_text, comment_sections>>
    /\ UNCHANGED extractVars
    /\ UNCHANGED entryVars

NextMap == MapStart \/ MapNextLine \/ MapReturn

SpecMap == InitMap /\ [][NextMap]_vars

(***************************************************************************)
(* Spec: calls of add_comments_to_pdf and add_comments_to_docx.            *)
(***************************************************************************)
Init ==
    /\ \/ /\ entry = "pdf" /\ source \in PdfSources /\ comments_text \in CommentTexts
       \/ /\ entry = "docx" /\ source \in DocxSources /\ comments_text \in CommentTexts
       \/ /\ entry = "docx" /\ source \in TenParagraphSources
          /\ comments_text \in {SplittingComment, SplittingCommentWithLine}
       \/ /\ entry = "pdf" /\ source = FixedPdf
          /\ comments_text \in ManySectionsTexts \cup LongTexts
       \/ /\ entry = "docx" /\ source = FixedDocx
          /\ comments_text \in ManySectionsTexts \cup LongTexts
       \/ /\ entry = "pdf" /\ source \in RampSources
          /\ comments_text = RampComment
       \/ /\ entry = "docx" /\ source = FixedDocx /\ comments_text \in CommentTexts
    \* the destination is varied for the two fixed documents
    \* where the source is the empty document, the source path may also be
    \* one that cannot be opened
    /\ path \in {SourcePath} \cup (IF source = NoDoc THEN Unreadable ELSE {})
    /\ output_path \in (IF source \in {FixedPdf, FixedDocx} THEN OutputPaths
                        ELSE {"out"})
    /\ files = [NoFiles EXCEPT ![path] = source]
    /\ handle = "none" /\ call = "first" /\ first = NoResult
    /\ doc = NoDoc /\ text_lines = <<>> /\ comment_sections = <<>>
    /\ pos = 0 /\ added = 0 /\ trace = <<>>
    /\ pc = "start"
    /\ ExtractIdle /\ ParseIdle /\ MapIdle

\* a loader that is handed the document the previous call wrote
LoadLastWritten(fs, p) == IF fs["out"] # NoDoc THEN fs["out"] ELSE fs[p]

\* doc.LoadFromFile(str(pdf_path)), Document(str(docx_path)): the document
\* read from the file at the path
LoadFromFile(fs, p) == fs[p]

\* a save that writes nothing
SaveNothing(fs, p, d) == fs

\* doc.SaveToFile(str(output_path)), doc.save(str(output_path)): the file at
\* the path replaced by the document
SaveToFile(fs, p, d) == [fs EXCEPT ![p] = d]

\* comment_helper.py lines 61-75: load the document, extract its text lines,
\* parse the comments
LoadPdf ==
    /\ pc = "start" /\ entry = "pdf"
    /\ handle' = "open"
    /\ IF path \in Unreadable
       THEN \* LoadFromFile raises: nothing after line 62 is reached
            /\ pc' = "load_raised"
            /\ UNCHANGED <<doc, text_lines, comment_sections, added, pos>>
       ELSE /\ doc' = LoadFromFile(files, path)
            /\ text_lines' = Split(AllText(LoadFromFile(files, path).pages), NewLine)
            /\ comment_sections' = parse_comment_sections(comments_text)
            /\ added' = 0
            /\ pos' = 1
            /\ pc' = "loop"
    /\ UNCHANGED <<entry, source, comments_text, trace, raw_lines, ppc, files>>
    /\ UNCHANGED callVars
    /\ UNCHANGED extractVars
    /\ UNCHANGED mapVars

\* the annotations of page p extended by `new`
AddToPage(pages, p, new) ==
    [pages EXCEPT ![p].annotations = pages[p].annotations \o new]

\* comment_helper.py lines 76-115: one pass of the loop over comment_sections[:50]
ProcessPdf ==
    /\ pc = "loop" /\ entry = "pdf"
    /\ pos <= Len(FirstSections(comment_sections))
    /\ \E rec \in {PdfRecord(doc.pages, text_lines, FirstSections(comment_sections)[pos])} :
           /\ trace' = Append(trace, rec)
           /\ IF rec.outcome = "IndexError"
              THEN pc' = "raised" /\ UNCHANGED <<doc, added, pos>>
              ELSE /\ doc' = IF rec.outcome = "placed"
                             THEN [doc EXCEPT !.pages = AddToPage(doc.pages, rec.page, rec.added)]
                             ELSE doc
                   /\ added' = NextCount(added, rec)
                   /\ pos' = pos + 1
                   /\ pc' = pc
    /\ UNCHANGED <<entry, source, comments_text, comment_sections, text_lines,
                   raw_lines, ppc, files, handle>>
    /\ UNCHANGED callVars
    /\ UNCHANGED extractVars
    /\ UNCHANGED mapVars

\* comment_helper.py lines 117-120: save, close, log
SavePdf ==
    /\ pc = "loop" /\ entry = "pdf"
    /\ pos > Len(FirstSections(comment_sections))
    /\ IF output_path \in Unwritable
       THEN \* SaveToFile raises: line 118 is not reached
            pc' = "save_raised" /\ UNCHANGED <<files, handle>>
       ELSE /\ files' = SaveToFile(files, output_path, doc)
            /\ handle' = "closed"
            /\ pc' = "done"
    /\ UNCHANGED <<entry, source, comments_text, comment_sections, doc, text_lines,
                   pos, added, trace, raw_lines, ppc>>
    /\ UNCHANGED callVars
    /\ UNCHANGED extractVars
    /\ UNCHANGED mapVars

\* comment_helper.py lines 125-129
LoadDocx ==
    /\ pc = "start" /\ entry = "docx"
    /\ IF path \in Unreadable
       THEN \* Document(...) raises: nothing after line 125 is reached
            /\ pc' = "load_raised"
            /\ UNCHANGED <<doc, comment_sections, added, pos>>
       ELSE /\ doc' = LoadFromFile(files, path)
            /\ comment_sections' = parse_comment_sections(comments_text)
            /\ added' = 0
            /\ pos' = 1
            /\ pc' = "loop"
    /\ UNCHANGED <<entry, source, comments_text, text_lines, trace, raw_lines, ppc,
                   files, handle>>
    /\ UNCHANGED callVars
    /\ UNCHANGED extractVars
    /\ UNCHANGED mapVars

\* comment_helper.py lines 130-150: one pass of the loop over comment_sections[:50]
ProcessDocx ==
    /\ pc = "loop" /\ entry = "docx"
    /\ pos <= Len(FirstSections(comment_sections))
    /\ \E rec \in {DocxRecord(doc.paragraphs, FirstSections(comment_sections)[pos])} :
           /\ trace' = Append(trace, rec)
           /\ doc' = [doc EXCEPT !.comments = doc.comments \o rec.added]
           /\ added' = NextCount(added, rec)
    /\ pos' = pos + 1
    /\ UNCHANGED <<entry, source, comments_text, comment_sections, text_lines, pc,
                   raw_lines, ppc, files, handle>>
    /\ UNCHANGED callVars
    /\ UNCHANGED extractVars
    /\ UNCHANGED mapVars

\* comment_helper.py lines 152-154: save, log
SaveDocx ==
    /\ pc = "loop" /\ entry = "docx"
    /\ pos > Len(FirstSections(comment_sections))
    /\ IF output_path \in Unwritable
       THEN pc' = "save_raised" /\ UNCHANGED files
       ELSE files' = SaveToFile(files, output_path, doc) /\ pc' = "done"
    /\ UNCHANGED <<entry, source, comments_text, comment_sections, doc, text_lines,
                   pos, added, trace, raw_lines, ppc, handle>>
    /\ UNCHANGED callVars
    /\ UNCHANGED extractVars
    /\ UNCHANGED mapVars

\* the caller runs the same entry point a second time on the same source
\* file, left as it was, with the same comments text and a destination of its
\* own; the locals of the first call are gone, what it left is kept in `first`
CallAgain ==
    /\ pc = "done" /\ call = "first"
    /\ files[path] = source
    /\ call' = "second"
    /\ first' = [doc |-> doc, added |-> added, trace |-> trace,
                 sections |-> comment_sections, output_path |-> output_path,
                 pc |-> pc]
    /\ output_path' = FreshPath
    /\ doc' = NoDoc /\ text_lines' = <<>> /\ comment_sections' = <<>>
    /\ pos' = 0 /\ added' = 0 /\ trace' = <<>>
    /\ handle' = "none"
    /\ pc' = "start"
    /\ UNCHANGED <<entry, source, path, files, comments_text, raw_lines, ppc>>
    /\ UNCHANGED extractVars
    /\ UNCHANGED mapVars

\* the caller runs main.add_comments_to_pdf on the source file of a call of
\* CommentHelper.add_comments_to_pdf that returned or raised, left as it was,
\* with the same comments text; after a return the destination is a new
\* file, after an exception it is the same one
CallMain ==
    /\ pc \in {"done", "raised", "load_raised", "save_raised"}
    /\ call = "first" /\ entry = "pdf"
    /\ files[path] = source
    /\ entry' = "main"
    /\ call' = "second"
    /\ first' = [doc |-> doc, added |-> added, trace |-> trace,
                 sections |-> comment_sections, output_path |-> output_path,
                 pc |-> pc]
    /\ output_path' = IF pc = "done" THEN FreshPath ELSE output_path
    /\ doc' = NoDoc /\ text_lines' = <<>> /\ comment_sections' = <<>>
    /\ pos' = 0 /\ added' = 0 /\ trace' = <<>>
    /\ handle' = "none"
    /\ pc' = "start"
    /\ UNCHANGED <<source, path, files, comments_text, raw_lines, ppc>>
    /\ UNCHANGED extractVars
    /\ UNCHANGED mapVars

\* main.py lines 115-142: load the document, extract its text lines, split
\* the comments into sections
MainLoadPdf ==
    /\ pc = "start" /\ entry = "main"
    /\ handle' = "open"
    /\ IF path \in Unreadable
       THEN /\ pc' = "load_raised"
            /\ UNCHANGED <<doc, text_lines, comment_sections, added, pos>>
       ELSE /\ doc' = LoadFromFile(files, path)
            /\ text_lines' = Split(AllText(LoadFromFile(files, path).pages), NewLine)
            /\ comment_sections' = MainSections(comments_text)
            /\ added' = 0
            /\ pos' = 1
            /\ pc' = "loop"
    /\ UNCHANGED <<entry, source, comments_text, trace, raw_lines, ppc, files>>
    /\ UNCHANGED callVars
    /\ UNCHANGED extractVars
    /\ UNCHANGED mapVars

\* main.py lines 143-182: one pass of the loop over comment_sections[:50]
MainProcessPdf ==
    /\ pc = "loop" /\ entry = "main"
    /\ pos <= Len(Take(comment_sections, MainMaxComments))
    /\ \E rec \in {MainPdfRecord(doc.pages, text_lines, comment_sections[pos],
                                  main_extract_line_numbers(comment_sections[pos]))} :
           /\ trace' = Append(trace, rec)
           /\ IF rec.outcome = "IndexError"
              THEN pc' = "raised" /\ UNCHANGED <<doc, added, pos>>
              ELSE /\ doc' = IF rec.outcome = "placed"
                             THEN [doc EXCEPT !.pages = AddToPage(doc.pages, rec.page, rec.added)]
                             ELSE doc
                   /\ added' = IF rec.outcome = "placed" THEN added + 1 ELSE added
                   /\ pos' = pos + 1
                   /\ pc' = pc
    /\ UNCHANGED <<entry, source, comments_text, comment_sections, text_lines,
                   raw_lines, ppc, files, handle>>
    /\ UNCHANGED callVars
    /\ UNCHANGED extractVars
    /\ UNCHANGED mapVars

\* main.py lines 184-187: save, close, log
MainSavePdf ==
    /\ pc = "loop" /\ entry = "main"
    /\ pos > Len(Take(comment_sections, MainMaxComments))
    /\ IF output_path \in Unwritable
       THEN pc' = "save_raised" /\ UNCHANGED <<files, handle>>
       ELSE /\ files' = SaveToFile(files, output_path, doc)
            /\ handle' = "closed"
            /\ pc' = "done"
    /\ UNCHANGED <<entry, source, comments_text, comment_sections, doc, text_lines,
                   pos, added, trace, raw_lines, ppc>>
    /\ UNCHANGED callVars
    /\ UNCHANGED extractVars
    /\ UNCHANGED mapVars

Next ==
    \/ LoadPdf \/ ProcessPdf \/ SavePdf
    \/ LoadDocx \/ ProcessDocx \/ SaveDocx
    \/ CallAgain
    \/ CallMain \/ MainLoadPdf \/ MainProcessPdf \/ MainSavePdf

Spec == Init /\ [][Next]_vars

\* control moves on inside a call: from the load to the loop or to the
\* exception of the load, from one pass of the loop to the next, to the
\* exception of a pass or to the save, and from the save to the return or
\* to its exception
Advance ==
    /\ pc \in {"start", "loop"}
    /\ pc' \in {"loop", "done", "raised", "load_raised", "save_raised"}
    /\ pos' \in {pos, pos + 1, 1}

\* a call that has started keeps running: the interpreter executes the next
\* statement of the function body, whether or not the caller ever calls
\* again
FairSpec == Init /\ [][Next]_vars /\ WF_<<pc, pos>>(Advance)

(***************************************************************************)
(* Claims about extract_line_numbers, checked under SpecExtract.           *)
(***************************************************************************)
StrictlyAscending(xs) == \A i \in 1..(Len(xs) - 1) : xs[i] < xs[i + 1]

RecognisedWords(rs) ==
    \A i \in 1..Len(rs) : rs[i].kind = "filler" \/ rs[i].word \in FirstLetterWords

ForwardRanges(rs) == \A i \in 1..Len(rs) : rs[i].a <= rs[i].b

\* C2: whatever the number, order and overlap of the references in the text,
\* the sequence extract_line_numbers returns is strictly ascending (sorted,
\* no duplicates).
C2_StrictlyAscending == xpc = "done" => StrictlyAscending(line_numbers)

\* the matches were collected out of order and with a duplicate
C2_Witness ==
    /\ xpc = "done"
    /\ ~StrictlyAscending(CollectedNumbers(text))
    /\ Len(CollectedNumbers(text)) > Len(line_numbers)
    /\ Len(line_numbers) >= 3

\* C3: when every range reference "line(s) a-b" has a <= b, the result holds
\* exactly the integers of the intervals [a, b] of the range references and of
\* the single references, every reference of the text contributing; the
\* single pattern matching the first number of a range again adds nothing
\* outside the ranges.
C3_UnionOfReferences ==
    (xpc = "done" /\ RecognisedWords(refs) /\ ForwardRanges(refs))
        => SeqRange(line_numbers) = IntendedNumbers(refs)

\* "Lines 9-11 line 0": a range and a single reference
C3_Witness ==
    /\ xpc = "done"
    /\ Len(refs) = 2
    /\ refs[1].kind = "range" /\ refs[1].a = 9 /\ refs[1].b = 11
    /\ refs[2].kind = "single" /\ refs[2].a = 0
    /\ RecognisedWords(refs)
    /\ line_numbers = <<0, 9, 10, 11>>

\* C4: the result does not depend on the capitalisation of the word
\* "line"/"lines", and holds the number of every single reference.
C4_CaseInsensitive ==
    xpc = "done" =>
        /\ line_numbers = extract_line_numbers(RenderRefs(sep, LowerRefs(refs)))
        /\ \A i \in 1..Len(refs) :
              refs[i].kind = "single" => refs[i].a \in SeqRange(line_numbers)

OnlyReversedRange(rs) ==
    /\ Len(rs) = 1
    /\ rs[1].kind = "range"
    /\ rs[1].a > rs[1].b

\* C5 as stated: a text whose only reference is a reversed range gives the
\* empty sequence.
C5_ReversedRangeEmpty ==
    (xpc = "done" /\ OnlyReversedRange(refs)) => line_numbers = <<>>

\* C5 as amended: a text whose only reference is a reversed range
\* "line(s) a-b", a > b, written line/lines/Line/Lines, gives <<a>>: the range
\* expands to nothing and the single pattern matches "line(s) a" again.
C5_ReversedRangeFirstNumber ==
    (xpc = "done" /\ OnlyReversedRange(refs) /\ RecognisedWords(refs))
        => line_numbers = <<refs[1].a>>

C5_Witness ==
    /\ xpc = "done"
    /\ OnlyReversedRange(refs)
    /\ RecognisedWords(refs)
    /\ refs[1].a = 11 /\ refs[1].b = 9
    /\ line_numbers = <<11>>

(***************************************************************************)
(* Claims about _parse_comment_sections, checked under SpecParse.          *)
(***************************************************************************)
\* the positions of the input lines that open a section, in input order
StartPositions(ls) == SortedOfSet({k \in 1..Len(ls) : ls[k].start})

\* the trimmed input lines from position a to position b
TrimmedLines(ls, a, b) == [k \in 1..(b - a + 1) |-> ls[a + k - 1].trimmed]

\* xs can be obtained from ys by leaving elements out
RECURSIVE IsSubSeq(_, _)
IsSubSeq(xs, ys) ==
    IF xs = <<>> THEN TRUE
    ELSE IF ys = <<>> THEN FALSE
    ELSE IF Head(xs) = Head(ys) THEN IsSubSeq(Tail(xs), Tail(ys))
    ELSE IsSubSeq(xs, Tail(ys))

SectionLines(n) == Split(comment_sections[n], NewLine)

\* the last input position of the n-th section
LastPosition(starts, n) ==
    IF n < Len(starts) THEN starts[n + 1] - 1 ELSE Len(raw_lines)

\* C6: the result has one section per input line that, trimmed, is non-empty
\* and starts with a digit or with "Location:"; the n-th section starts with
\* the n-th such line, and holds only lines lying between that line and the
\* next such line; no such line, no section.
C6_OneSectionPerStartLine ==
    ppc = "done" =>
        /\ Len(comment_sections) = Len(StartPositions(raw_lines))
        /\ \A n \in 1..Len(comment_sections) :
              /\ SectionLines(n)[1] = raw_lines[StartPositions(raw_lines)[n]].trimmed
              /\ IsSubSeq(SectionLines(n),
                          TrimmedLines(raw_lines, StartPositions(raw_lines)[n],
                                       LastPosition(StartPositions(raw_lines), n)))

\* four lines: one before the first section, two that open a section, one
\* that continues a section
C6_Witness ==
    /\ ppc = "done"
    /\ Len(raw_lines) = 4
    /\ ~raw_lines[1].start /\ raw_lines[1].trimmed # <<>>
    /\ raw_lines[2].start /\ raw_lines[2].raw # raw_lines[2].trimmed
    /\ ~raw_lines[3].start /\ raw_lines[3].trimmed # <<>>
    /\ raw_lines[4].start /\ StartsWith(raw_lines[4].raw, LocationToken)
    /\ Len(comment_sections) = 2

\* the number of lines of the first n sections
RECURSIVE LinesInSections(_)
LinesInSections(n) ==
    IF n = 0 THEN 0 ELSE Len(SectionLines(n)) + LinesInSections(n - 1)

\* C7: every line of every section is a trimmed, non-empty input line (a
\* blank line inside a comment is left out), and no line before the first
\* section start is in a section.
C7_OnlyNonEmptyLines ==
    ppc = "done" =>
        /\ \A n \in 1..Len(comment_sections) :
              \A k \in 1..Len(SectionLines(n)) :
                  /\ SectionLines(n)[k] # <<>>
                  /\ \E j \in 1..Len(raw_lines) : raw_lines[j].trimmed = SectionLines(n)[k]
        /\ comment_sections # <<>> =>
              LinesInSections(Len(comment_sections))
                  <= Len(raw_lines) - StartPositions(raw_lines)[1] + 1

(***************************************************************************)
(* Claims about the entry points, checked under Spec.                      *)
(***************************************************************************)
\* the first min(n, len) characters of s
FirstChars(s, n) == [k \in 1..(IF Len(s) < n THEN Len(s) ELSE n) |-> s[k]]

\* every annotation the document holds: the highlights of its pages and its
\* comments
RECURSIVE PageAnnotations(_)
PageAnnotations(pages) ==
    IF pages = <<>> THEN {}
    ELSE SeqRange(Head(pages).annotations) \cup PageAnnotations(Tail(pages))

Annotations == PageAnnotations(doc.pages) \cup SeqRange(doc.comments)

TenParagraphsWithRuns ==
    /\ entry = "docx"
    /\ Len(source.paragraphs) = 10
    /\ source.paragraphs[5].runs >= 1

\* the runs of the paragraph at zero-based index 4
RunsOfParagraphFour == [r \in 1..source.paragraphs[5].runs |-> [para |-> 4, run |-> r]]

\* C1 as stated: with ten paragraphs, the fifth with runs, the comment
\* "5. Consider splitting this sentence." is parsed with line_numbers = [5]
\* and one comment is attached to the runs of paragraph index 4.
C1_SplittingCommentAnchored ==
    (pc = "done" /\ TenParagraphsWithRuns /\ comments_text = SplittingComment) =>
        /\ Len(trace) = 1 /\ trace[1].line_numbers = <<5>>
        /\ Len(doc.comments) = 1 /\ doc.comments[1].runs = RunsOfParagraphFour
        /\ added = 1

\* C1 as amended: that comment names no line ("5." numbers the section), so
\* line_numbers = [] and nothing is attached; the comment
\* "5. Line 5: consider splitting this sentence." is parsed with
\* line_numbers = [5] and gets exactly one comment, on the runs of paragraph
\* index 4.
C1_LineReferenceNeeded ==
    (pc = "done" /\ TenParagraphsWithRuns) =>
        /\ comments_text = SplittingComment =>
              /\ Len(trace) = 1 /\ trace[1].line_numbers = <<>>
              /\ doc.comments = <<>> /\ added = 0
        /\ comments_text = SplittingCommentWithLine =>
              /\ Len(trace) = 1 /\ trace[1].line_numbers = <<5>>
              /\ Len(doc.comments) = 1 /\ doc.comments[1].runs = RunsOfParagraphFour
              /\ added = 1

C1_Witness ==
    /\ pc = "done" /\ TenParagraphsWithRuns
    /\ comments_text = SplittingComment
    /\ Len(comment_sections) = 1 /\ Len(trace) = 1

\* C8: only the first 50 sections are handled, in both entry points, counted
\* before the sections without line numbers are dropped: the k-th comment
\* handled is the k-th section, 50 are handled when there are more, and every
\* annotation comes from one of the first 50 sections.
C8_FirstFiftySections ==
    /\ Len(trace) <= MaxComments
    /\ \A k \in 1..Len(trace) : trace[k].comment = comment_sections[k]
    /\ pc = "done" =>
          Len(trace) = IF Len(comment_sections) < MaxComments
                       THEN Len(comment_sections) ELSE MaxComments
    /\ \A a \in Annotations :
          \E k \in 1..MaxComments :
              /\ k <= Len(comment_sections)
              /\ a.text = FirstChars(comment_sections[k], MaxBody)

\* more than 50 sections, the first ones without a line number, the ones past
\* the 50th with one that could be placed
C8_Witness ==
    /\ pc = "done"
    /\ Len(comment_sections) > MaxComments + 1
    /\ trace[1].outcome = "no_lines"
    /\ trace[MaxComments].outcome = "placed"
    /\ HasLineNumbers(comment_sections[MaxComments + 1])
    /\ added > 0

\* C9: every annotation body is the first min(500, len) characters of the
\* section it was made from, nothing appended.
C9_BodyIsFirst500 ==
    /\ \A k \in 1..Len(trace) :
          \A j \in 1..Len(trace[k].added) :
              /\ trace[k].added[j].text = FirstChars(comment_sections[k], MaxBody)
              /\ Len(trace[k].added[j].text) <= MaxBody
    /\ \A a \in Annotations :
          \E k \in 1..Len(trace) : \E j \in 1..Len(trace[k].added) : a = trace[k].added[j]

\* a section of more than 501 characters was placed with a body of 500
C9_Witness ==
    /\ pc = "done"
    /\ Len(comment_sections) = 1
    /\ Len(comment_sections[1]) > MaxBody + 1
    /\ \E a \in Annotations :
          Len(a.text) = MaxBody /\ a.text = SubSeq(comment_sections[1], 1, MaxBody)

\* the positions in nums of the numbers within 1..n
PositionsWithin(nums, n) == {j \in 1..Len(nums) : 1 <= nums[j] /\ nums[j] <= n}

\* C10: in add_comments_to_pdf nothing raises, the target lines are exactly
\* the text lines of the line numbers within 1..len(text_lines), a record
\* with no such number is skipped without annotation, and the search text is
\* the trimmed line of the smallest such number.
C10_OutOfBoundsSkipped ==
    entry = "pdf" =>
        /\ pc # "raised"
        /\ \A k \in 1..Len(trace) :
              /\ trace[k].outcome # "IndexError"
              /\ Len(trace[k].target_lines)
                     = Cardinality(PositionsWithin(trace[k].line_numbers, Len(text_lines)))
              /\ \A j \in 1..Len(trace[k].target_lines) :
                    trace[k].target_lines[j] =
                        text_lines[trace[k].line_numbers[
                            SortedOfSet(PositionsWithin(trace[k].line_numbers,
                                                        Len(text_lines)))[j]]]
              /\ (trace[k].line_numbers # <<>>
                    /\ PositionsWithin(trace[k].line_numbers, Len(text_lines)) = {})
                   => (trace[k].outcome = "no_target" /\ trace[k].added = <<>>)
              /\ PositionsWithin(trace[k].line_numbers, Len(text_lines)) # {}
                   => trace[k].search_text =
                         Strip(text_lines[trace[k].line_numbers[
                             Min(PositionsWithin(trace[k].line_numbers, Len(text_lines)))]])

\* "lines 0-2" placed from line 1, then "line 9" skipped
C10_Witness ==
    /\ entry = "pdf" /\ pc = "done"
    /\ Len(trace) = 2
    /\ trace[1].line_numbers = <<0, 1, 2>> /\ trace[1].outcome = "placed"
    /\ trace[1].search_text = Strip(text_lines[1])
    /\ trace[2].line_numbers = <<9>> /\ trace[2].outcome = "no_target"
    /\ Len(text_lines) < 9

\* the line number of the first target line of a record, 0 when none of its
\* line numbers is within the text lines
FirstTargetNumber(nums) ==
    IF PositionsWithin(nums, Len(text_lines)) = {} THEN 0
    ELSE nums[Min(PositionsWithin(nums, Len(text_lines)))]

\* C11: in add_comments_to_pdf a record whose first in-bounds target line,
\* trimmed, has fewer than 3 characters is skipped: no page is searched and
\* nothing is added, whatever the later target lines are.
C11_ShortFirstLineSkipped ==
    entry = "pdf" =>
        \A k \in 1..Len(trace) :
            (/\ FirstTargetNumber(trace[k].line_numbers) # 0
             /\ Len(Strip(text_lines[FirstTargetNumber(trace[k].line_numbers)]))
                    < MinSearchLen)
              => /\ trace[k].outcome = "short"
                 /\ trace[k].searched = 0 /\ trace[k].page = 0
                 /\ trace[k].added = <<>>

\* "lines 2-3": line 2 is "ab", line 3 is found on a page, nothing is added
C11_Witness ==
    /\ entry = "pdf" /\ pc = "done"
    /\ Len(trace) = 1
    /\ trace[1].line_numbers = <<2, 3>>
    /\ Len(trace[1].target_lines) = 2
    /\ Len(Strip(trace[1].target_lines[1])) < MinSearchLen
    /\ Len(Strip(trace[1].target_lines[2])) >= MinSearchLen
    /\ MatchingPages(doc.pages, Strip(trace[1].target_lines[2])) # {}
    /\ trace[1].outcome = "short"
    /\ added = 0 /\ Annotations = {}

\* the pages on which the text occurs, letter case ignored, and can be found
PagesContaining(pages, t) ==
    {p \in 1..Len(pages) : pages[p].searchable /\ Occurrences(pages[p].text, t) # {}}

\* the pages whose annotations a step changes
PagesChanged ==
    {p \in 1..Len(doc.pages) : doc'.pages[p].annotations # doc.pages[p].annotations}

\* C12: a pass of the PDF loop over a record with a usable search text
\* searches the pages in ascending order and annotates the lowest page on
\* which the text is found and no other; it annotates none when no page has
\* the text.
C12_FirstMatchingPageOnly ==
    [][(entry = "pdf" /\ pc = "loop" /\ Len(trace') = Len(trace) + 1
            /\ Len(trace'[Len(trace')].search_text) >= MinSearchLen) =>
          IF PagesContaining(doc.pages, trace'[Len(trace')].search_text) = {}
          THEN /\ PagesChanged = {}
               /\ added' = added
               /\ trace'[Len(trace')].searched = Len(doc.pages)
          ELSE /\ PagesChanged =
                     {Min(PagesContaining(doc.pages, trace'[Len(trace')].search_text))}
               /\ added' = added + 1
               /\ trace'[Len(trace')].searched =
                     Min(PagesContaining(doc.pages, trace'[Len(trace')].search_text))
       ]_vars

\* the text is on both pages and only the first page is annotated
C12_Witness ==
    /\ entry = "pdf" /\ Len(trace) = 1 /\ Len(doc.pages) = 2
    /\ trace[1].outcome = "placed"
    /\ PagesContaining(doc.pages, trace[1].search_text) = {1, 2}
    /\ doc.pages[1].annotations # <<>>
    /\ doc.pages[2].annotations = <<>>
    /\ added = 1

\* the line numbers of a record whose paragraph exists and has runs
UsableNumbers(nums) ==
    {n \in SeqRange(nums) :
        /\ 0 <= n - 1 /\ n - 1 < Len(doc.paragraphs)
        /\ doc.paragraphs[n].runs > 0}

\* C13: in add_comments_to_docx a record gets one comment, on the runs of
\* paragraph index n - 1 for the smallest of its line numbers n whose
\* paragraph exists and has runs, and none when it has no such line number;
\* the document holds one comment per record placed.
C13_FirstUsableParagraph ==
    entry = "docx" =>
        /\ \A k \in 1..Len(trace) :
              IF UsableNumbers(trace[k].line_numbers) = {}
              THEN trace[k].added = <<>>
              ELSE /\ Len(trace[k].added) = 1
                   /\ trace[k].para = Min(UsableNumbers(trace[k].line_numbers)) - 1
                   /\ trace[k].added[1].runs =
                         [r \in 1..doc.paragraphs[
                                    Min(UsableNumbers(trace[k].line_numbers))].runs |->
                             [para |-> Min(UsableNumbers(trace[k].line_numbers)) - 1,
                              run |-> r]]
        /\ Len(doc.comments) = Cardinality({k \in 1..Len(trace) : trace[k].added # <<>>})
        /\ added = Len(doc.comments)

\* "lines 0-2": no paragraph for 0, paragraph 0 has no runs, paragraph 1 gets
\* the comment
C13_Witness ==
    /\ entry = "docx" /\ pc = "done"
    /\ Len(trace) = 1
    /\ trace[1].line_numbers = <<0, 1, 2>>
    /\ Len(doc.paragraphs) = 3 /\ doc.paragraphs[1].runs = 0
    /\ trace[1].para = 1
    /\ Len(doc.comments) = 1 /\ doc.comments[1].runs = <<[para |-> 1, run |-> 1]>>

C15_HandleClosedOnExit ==
    (entry = "pdf" /\ pc \in {"done", "raised", "save_raised"}) => handle = "closed"

\* C16 as stated: when a call has ended, the file at the source path has the
\* contents it had before the call, whatever the destination path.
C16_SourceFileUnchanged ==
    pc \in {"done", "raised", "save_raised"} => files[path] = source

\* whether the record with these line numbers can be located in the document
Locatable(nums) ==
    IF entry # "docx"
    THEN /\ FirstTargetNumber(nums) # 0
         /\ Len(Strip(text_lines[FirstTargetNumber(nums)])) >= MinSearchLen
         /\ PagesContaining(doc.pages, Strip(text_lines[FirstTargetNumber(nums)])) # {}
    ELSE UsableNumbers(nums) # {}

\* C17: a pass of either loop over a record that cannot be located (no line
\* numbers, none in range, a first target line that is too short, no page
\* with the text, no usable paragraph) leaves the document and the counter
\* as they were and raises nothing; the loop goes on with the next section,
\* and the call saves only after the last of the first 50 sections.
C17_UnlocatableSkipped ==
    [][/\ (pc = "loop" /\ Len(trace') = Len(trace) + 1
            /\ ~Locatable(extract_line_numbers(comment_sections[pos]))) =>
              /\ trace'[Len(trace')].comment = comment_sections[pos]
              /\ trace'[Len(trace')].added = <<>>
              /\ doc' = doc /\ added' = added
              /\ pc' = "loop" /\ pos' = pos + 1
       /\ (pc = "loop" /\ pc' # "loop") =>
              /\ pc' \in {"done", "save_raised"}
              /\ Len(trace) = Len(comment_sections)
                     \/ (Len(trace) = MaxComments /\ Len(comment_sections) > MaxComments)
      ]_vars

\* the first record found no page with its text, the second one was placed
C17_Witness ==
    /\ pc = "done" /\ entry = "pdf"
    /\ Len(trace) = 2
    /\ trace[1].outcome = "no_hit" /\ trace[1].added = <<>>
    /\ trace[2].outcome = "placed"
    /\ added = 1

\* C19: with "The access ramp gradient exceeds 1:12." as extracted line 42,
\* found by the search with one bounding region, and the comments text
\* "Location: Lines 42. The gradient is non-compliant.", the call adds one
\* highlight, on the first page with that text, whose body is the whole
\* comment, and counts 1.
C19_RampCommentPlaced ==
    (pc = "done" /\ entry = "pdf" /\ comments_text = RampComment
        /\ Len(text_lines) >= 42 /\ text_lines[42] = RampLine) =>
        /\ added = 1
        /\ Len(trace) = 1 /\ trace[1].line_numbers = <<42>>
        /\ \A p \in 1..Len(doc.pages) :
              IF p = Min(PagesContaining(source.pages, RampLine))
              THEN /\ Len(doc.pages[p].annotations) = 1
                   /\ doc.pages[p].annotations[1].text = RampComment
                   /\ doc.pages[p].annotations[1].type = "Highlight"
                   /\ doc.pages[p].annotations[1].author = "ADA"
              ELSE doc.pages[p].annotations = <<>>

\* line 42 is on the second page, the sentence is also on the first page,
\* and the highlight is on the first
C19_Witness ==
    /\ pc = "done" /\ entry = "pdf" /\ comments_text = RampComment
    /\ text_lines[42] = RampLine
    /\ Occurrences(source.pages[2].text, RampLine) # {}
    /\ Len(Split(source.pages[1].text, NewLine)) < 42
    /\ Len(doc.pages[1].annotations) = 1
    /\ added = 1

(***************************************************************************)
(* A further claim about extract_line_numbers, checked under SpecExtract.  *)
(***************************************************************************)
\* C18 as stated: every line number extract_line_numbers returns is a
\* positive integer, whatever the text.
C18_AllPositive ==
    xpc = "done" => \A i \in 1..Len(line_numbers) : line_numbers[i] >= 1

UsedBefore(l) == {x[2] : x \in {y \in line_to_para_map : y[1] < l}}

\* the paragraphs, not used before line l, whose trimmed text is the trimmed
\* line l
ExactParagraphs(l) ==
    {q \in 0..(Len(para_texts) - 1) :
        /\ q \notin UsedBefore(l)
        /\ Strip(para_texts[q + 1]) # <<>>
        /\ Strip(para_texts[q + 1]) = Strip(extracted_lines[l])}

\* C21 as stated: a line for which some paragraph not yet used has exactly
\* its trimmed text is mapped to a paragraph with exactly that text, never to
\* one that matches only after whitespace normalization.
C21_ExactMatchFirst ==
    mpc = "done" =>
        \A l \in 1..Len(extracted_lines) :
            ExactParagraphs(l) # {} =>
                \E x \in line_to_para_map :
                    /\ x[1] = l
                    /\ Strip(para_texts[x[2] + 1]) = Strip(extracted_lines[l])

\* the texts that are not blank, in order
NonEmptyTexts(texts) == SelectSeq(texts, LAMBDA t : Strip(t) # <<>>)

\* the extracted lines are, in order, the texts of the paragraphs that are
\* not blank
LinesAreParagraphTexts == NonEmptyTexts(extracted_lines) = NonEmptyTexts(para_texts)

\* C22: when the extracted lines are, in order, the texts of the paragraphs
\* that are not blank, every line that is not blank is mapped and every such
\* paragraph is used, so the map has as many entries as there are such
\* paragraphs; no blank line and no blank paragraph is in the map.
C22_EveryParagraphMapped ==
    (mpc = "done" /\ LinesAreParagraphTexts) =>
        /\ {x[1] : x \in line_to_para_map}
              = {l \in 1..Len(extracted_lines) : Strip(extracted_lines[l]) # <<>>}
        /\ {x[2] : x \in line_to_para_map}
              = {q \in 0..(Len(para_texts) - 1) : Strip(para_texts[q + 1]) # <<>>}
        /\ Cardinality(line_to_para_map) = Len(NonEmptyTexts(para_texts))

\* a text twice with a blank line between, and a blank paragraph elsewhere
C22_Witness ==
    /\ mpc = "done" /\ LinesAreParagraphTexts
    /\ Len(extracted_lines) = 3 /\ Len(para_texts) = 3
    /\ extracted_lines[1] = extracted_lines[3]
    /\ Strip(extracted_lines[2]) = <<>>
    /\ Strip(para_texts[1]) = <<>>
    /\ line_to_para_map = {<<1, 1>>, <<3, 2>>}

(***************************************************************************)
(* Further claims about the entry points, checked under Spec.              *)
(***************************************************************************)
\* the highlights a placement of the section at `pos` must add to page p: one
\* per bounding region of the first occurrence of the search text
ExpectedHighlights(p, search_text) ==
    [r \in 1..doc.pages[p].nbounds |->
        [author |-> "ADA",
         text   |-> FirstChars(comment_sections[pos], MaxBody),
         rect   |-> [at |-> Min(Occurrences(doc.pages[p].text, search_text)),
                     region |-> r],
         type   |-> "Highlight",
         color  |-> "Yellow"]]

\* C23: a pass of the PDF loop that places a record appends to the page it
\* annotates one highlight per bounding region of the first fragment found
\* there, each with the truncated comment as body, the author "ADA", the
\* Highlight type and the yellow colour, and nothing for the other fragments.
C23_OneHighlightPerRegion ==
    [][(entry # "docx" /\ pc = "loop" /\ Len(trace') = Len(trace) + 1) =>
          \A p \in PagesChanged :
              doc'.pages[p].annotations =
                  doc.pages[p].annotations
                      \o ExpectedHighlights(p, trace'[Len(trace')].search_text)
      ]_vars

\* the text occurs twice on the page, the first occurrence has two bounding
\* regions, and the page got two highlights
C23_Witness ==
    /\ entry = "pdf" /\ Len(trace) = 1
    /\ trace[1].outcome = "placed"
    /\ Cardinality(Occurrences(doc.pages[trace[1].page].text, trace[1].search_text)) = 2
    /\ doc.pages[trace[1].page].nbounds = 2
    /\ Len(doc.pages[trace[1].page].annotations) = 2
    /\ doc.pages[trace[1].page].annotations[1].rect.at
          = doc.pages[trace[1].page].annotations[2].rect.at

\* the counter is the number of records placed so far, at most the number of
\* sections and at most 50, and the number of comments of a word-processor
\* document
CounterIsPlaced ==
    /\ added = Cardinality({k \in 1..Len(trace) : trace[k].added # <<>>})
    /\ added <= Len(comment_sections) /\ added <= MaxComments
    /\ entry = "docx" => added = Len(doc.comments)

\* C24: in every state of a call the counter is the number of records
\* placed so far, whatever the number of regions highlighted, at most
\* min(50, number of sections), and in the word-processor path the number of
\* comments attached; within a call it never decreases and grows by at most
\* one per record.
C24_CounterCountsPlaced ==
    [][/\ CounterIsPlaced /\ CounterIsPlaced'
       /\ (pc = "loop" /\ pc' # "start") =>
              (added' \in {added, added + 1} /\ (pc' # "loop" => added' = added))
      ]_vars

\* one record skipped, one placed with two highlights, the counter is 1
C24_Witness ==
    /\ entry = "pdf" /\ pc = "done"
    /\ Len(trace) = 2
    /\ trace[1].added = <<>> /\ Len(trace[2].added) = 2
    /\ Cardinality(Annotations) = 2
    /\ added = 1

\* the comments the loop of the running call goes over
LoopLength == Len(Take(comment_sections, MaxComments))

\* the call returns only by the save: the destination file becomes the
\* document as annotated, and every record has been processed by then
ReturnsBySaving ==
    (pc # "done" /\ pc' = "done") =>
        /\ pc = "loop"
        /\ Len(trace) = LoopLength /\ pos = LoopLength + 1
        /\ files' = [files EXCEPT ![output_path] = doc]
        /\ doc' = doc /\ added' = added /\ trace' = trace

\* no file is written by any other statement
WritesOnlyWhenSaving == (files' # files) => (pc = "loop" /\ pc' = "done")

\* after the save, and after an exception, the call does nothing more: the
\* only step left is a new call by the caller
NothingAfterTheEnd ==
    (pc \in {"done", "raised", "load_raised", "save_raised"}) =>
        (pc' = "start" /\ files' = files)

\* a call whose load failed has annotated nothing and written nothing
FailedLoadLeavesNothing ==
    (pc = "load_raised") =>
        /\ doc = NoDoc /\ added = 0 /\ trace = <<>>
        /\ files = [NoFiles EXCEPT ![path] = source]

\* C25: a call runs load, annotate, save in that order and to the end: with
\* a readable source and a writable destination it returns for every
\* comments text, having saved the document exactly once, after the last
\* record, with no annotation after the save; with an unreadable source the
\* load raises to the caller and nothing is annotated or written.
C25_LoadAnnotateSave ==
    /\ [][ReturnsBySaving /\ WritesOnlyWhenSaving /\ NothingAfterTheEnd]_vars
    /\ [](pc = "done" => files[output_path] = doc)
    /\ []FailedLoadLeavesNothing
    /\ (pc = "start" /\ path \notin Unreadable /\ output_path \notin Unwritable)
            ~> (pc = "done")
    /\ (pc = "start" /\ path \in Unreadable) ~> (pc = "load_raised")

\* a first call returned after two records, with an annotation placed, and
\* its destination file holds the annotated document
C25_Witness ==
    /\ pc = "done" /\ call = "first"
    /\ Len(trace) >= 2 /\ added > 0
    /\ doc # source /\ files[output_path] = doc

\* C26: main.add_comments_to_pdf, run on the source document and comments
\* text of a call of CommentHelper.add_comments_to_pdf, ends as that call
\* ended (returning, or raising at the same statement), having split the
\* text into the same sections, read the same line numbers, added the same
\* annotations to the same pages in the same order and counted the same
\* number of comments.
C26_MainSameAsHelper ==
    (entry = "main" /\ pc \in {"done", "raised", "load_raised", "save_raised"}) =>
        /\ pc = first.pc
        /\ comment_sections = first.sections
        /\ trace = first.trace
        /\ doc = first.doc
        /\ added = first.added

\* both ran over a text of two sections, one with line 0 in its range, and
\* both placed an annotation
C26_Witness ==
    /\ entry = "main" /\ pc = "done"
    /\ Len(first.trace) = 2 /\ Len(trace) = 2
    /\ \E k \in 1..2 : trace[k].line_numbers = <<0, 1, 2>>
    /\ first.added > 0 /\ added > 0
    /\ Annotations # {}

====
